---- MODULE Spec2Model ----
(***************************************************************************)
(* A model of the CHIP-8 interpreter core of this repository.              *)
(*                                                                         *)
(* The repository holds two drafts of the same machine:                    *)
(*   src/src/chip8.rs          struct Chip8 with new, load_rom and the     *)
(*                             fetch-decode-execute step emulate_cycle;    *)
(*   src/src/modules/chip8.rs  struct Chip8 with new, load_rom and one     *)
(*                             public handler op_XXXX per instruction.     *)
(* Both are modelled over the same state (the fields of struct Chip8).     *)
(* Spec is the machine of src/src/chip8.rs, SpecModules the machine of     *)
(* src/src/modules/chip8.rs.                                               *)
(***************************************************************************)
EXTENDS Integers, Sequences, FiniteSets, TLC

(***************************************************************************)
(* Program constants.                                                      *)
(***************************************************************************)
MEMORY_SIZE == 4096

VIDEO_WIDTH == 64

VIDEO_HEIGHT == 32

START_ADDRESS == 512

FONTSET_START_ADDRESS == 80

FONTSET_SIZE == 80

STACK_SIZE == 16

CHIP8_FONTSET ==
  << 240, 144, 144, 144, 240,
      32,  96,  32,  32, 112,
     240,  16, 240, 128, 240,
     240,  16, 240,  16, 240,
     144, 144, 240,  16,  16,
     240, 128, 240,  16, 240,
     240, 128, 240, 144, 240,
     240,  16,  32,  64,  64,
     240, 144, 240, 144, 240,
     240, 144, 240,  16, 240,
     240, 144, 240, 144, 144,
     224, 144, 224, 144, 224,
     240, 128, 128, 128, 240,
     224, 144, 144, 144, 224,
     240, 128, 240, 128, 240,
     240, 128, 240, 128, 128 >>

(***************************************************************************)
(* Fixed-width integer helpers (Rust u8 / u16 operators).                  *)
(***************************************************************************)
RECURSIVE BitAnd(_, _)
BitAnd(a, b) ==
  IF a = 0 \/ b = 0 THEN 0
  ELSE (a % 2) * (b % 2) + 2 * BitAnd(a \div 2, b \div 2)

RECURSIVE BitXor(_, _)
BitXor(a, b) ==
  IF a = 0 THEN b
  ELSE IF b = 0 THEN a
  ELSE ((a + b) % 2) + 2 * BitXor(a \div 2, b \div 2)

RECURSIVE Pow2(_)
Pow2(k) == IF k = 0 THEN 1 ELSE 2 * Pow2(k - 1)

\* v >> k
Shr(v, k) == v \div Pow2(k)

\* (v << k) truncated to a width of w values (256 for u8, 65536 for u16)
Shl(v, k, w) == (v * Pow2(k)) % w

(***************************************************************************)
(* The two large arrays, memory ([u8; 4096]) and video ([_; 64 * 32]), are *)
(* kept as the finite map of their non-zero elements: element i of array   *)
(* arr is Read(arr, i), and Write(arr, i, v) is the array after            *)
(* arr[i] = v.  The index checks Rust makes on them are stated where the   *)
(* code indexes (an index >= the array's length panics).                   *)
(***************************************************************************)
Read(arr, i) == IF i \in DOMAIN arr THEN arr[i] ELSE 0

Write(arr, i, v) ==
  IF v = 0
  THEN [j \in DOMAIN arr \ {i} |-> arr[j]]
  ELSE [j \in DOMAIN arr \cup {i} |-> IF j = i THEN v ELSE arr[j]]

\* The array all of whose elements are 0.
Zeroed == [j \in {} |-> 0]

VARIABLES
  memory,            \* [u8; 4096]
  registers,         \* [u8; 16]
  index,             \* u16
  pc,                \* u16
  stack,             \* [u16; 16]
  sp,                \* u8
  delay_timer,       \* u8
  sound_timer,       \* u8
  video,             \* [u8; 64 * 32]
  keypad,            \* [bool; 16]
  opcode,            \* u16
  stderr,            \* what the last call printed with eprintln!, without the
                     \* opcode it formats in ("" when it printed nothing)
  outcome,           \* how the last call ended: "none" before any call,
                     \* "Ok(())", "Err(io)", "()" or "panic: <message>"
  overflow_checks,   \* the build: TRUE when integer overflow panics (debug
                     \* profile), FALSE when it wraps (release profile)
  buffer,            \* the bytes load_rom read from the file (its local
                     \* Vec<u8>), << >> before load_rom is called
  script             \* the instruction words the caller of the handlers of
                     \* src/src/modules/chip8.rs has still to dispatch

vars == << memory, registers, index, pc, stack, sp, delay_timer, sound_timer,
           video, keypad, opcode, stderr, outcome, overflow_checks, buffer,
           script >>

\* The struct as one value, with the outcome of the call being executed.
Self ==
  [ memory |-> memory, registers |-> registers, index |-> index, pc |-> pc,
    stack |-> stack, sp |-> sp, delay_timer |-> delay_timer,
    sound_timer |-> sound_timer, video |-> video, keypad |-> keypad,
    opcode |-> opcode, stderr |-> stderr, outcome |-> outcome ]

\* The state after a call that returned or panicked with the struct as r.
Becomes(r) ==
  /\ memory' = r.memory
  /\ registers' = r.registers
  /\ index' = r.index
  /\ pc' = r.pc
  /\ stack' = r.stack
  /\ sp' = r.sp
  /\ delay_timer' = r.delay_timer
  /\ sound_timer' = r.sound_timer
  /\ video' = r.video
  /\ keypad' = r.keypad
  /\ opcode' = r.opcode
  /\ stderr' = r.stderr
  /\ outcome' = r.outcome
  /\ UNCHANGED overflow_checks

Panic(self, msg) == [self EXCEPT !.outcome = "panic: " \o msg]

Panicked(o) == o \notin {"none", "Ok(())", "Err(io)", "()"}

IndexOutOfBounds == "index out of bounds"

AddOverflow == "attempt to add with overflow"

SubOverflow == "attempt to subtract with overflow"

(***************************************************************************)
(* src/src/chip8.rs                                                        *)
(***************************************************************************)

\* for i in 0..80 { chip8.memory[FONTSET_START_ADDRESS + i] = CHIP8_FONTSET[i] }
new_fontset(mem) ==
  LET written == FONTSET_START_ADDRESS..(FONTSET_START_ADDRESS + FONTSET_SIZE - 1)
      byte(addr) == CHIP8_FONTSET[addr - FONTSET_START_ADDRESS + 1]
      nonzero == (DOMAIN mem \ written) \cup { addr \in written : byte(addr) # 0 }
  IN [addr \in nonzero |-> IF addr \in written THEN byte(addr) ELSE mem[addr]]

\* Chip8::new
new ==
  [ memory |-> new_fontset(Zeroed),
    registers |-> [i \in 0..15 |-> 0],
    index |-> 0,
    pc |-> START_ADDRESS,
    stack |-> [i \in 0..(STACK_SIZE - 1) |-> 0],
    sp |-> 0,
    delay_timer |-> 0,
    sound_timer |-> 0,
    video |-> Zeroed,
    keypad |-> [i \in 0..15 |-> FALSE],
    opcode |-> 0,
    stderr |-> "",
    outcome |-> "none" ]

\* The loop of load_rom with the test written addr <= self.memory.len(): the
\* byte for address MEMORY_SIZE is stored too.
load_rom_loop_off_by_one(mem, buf) ==
  LET written == { addr \in START_ADDRESS..(START_ADDRESS + Len(buf) - 1) :
                     addr <= MEMORY_SIZE }
      byte(addr) == buf[addr - START_ADDRESS + 1]
      nonzero == (DOMAIN mem \ written) \cup { addr \in written : byte(addr) # 0 }
  IN [addr \in nonzero |-> IF addr \in written THEN byte(addr) ELSE mem[addr]]

\* The loop of Chip8::load_rom in closed form: byte i of buffer goes to
\* START_ADDRESS + i for as long as that address is inside memory (the
\* addresses grow with i, so the break at the first address outside memory
\* leaves exactly the later bytes unwritten).
load_rom_loop(mem, buf) ==
  LET written == { addr \in START_ADDRESS..(START_ADDRESS + Len(buf) - 1) :
                     addr < MEMORY_SIZE }
      byte(addr) == buf[addr - START_ADDRESS + 1]
      nonzero == (DOMAIN mem \ written) \cup { addr \in written : byte(addr) # 0 }
  IN [addr \in nonzero |-> IF addr \in written THEN byte(addr) ELSE mem[addr]]

\* Chip8::load_rom, the file read into buffer
load_rom(self, buf) ==
  [self EXCEPT !.memory = load_rom_loop(self.memory, buf),
               !.outcome = "Ok(())"]

\* cls with the loop stopping one pixel early: the last cell keeps its value.
cls_leaves_last_cell(self) ==
  [self EXCEPT !.video =
     [cell \in DOMAIN self.video \cap {VIDEO_WIDTH * VIDEO_HEIGHT - 1} |->
        self.video[cell]]]

\* Chip8::cls
\* for pixel in self.video.iter_mut() { *pixel = 0 }
cls(self) == [self EXCEPT !.video = Zeroed]

\* Chip8::ret
ret(self) ==
  IF self.sp > 0
  THEN [self EXCEPT !.sp = self.sp - 1, !.pc = self.stack[self.sp - 1]]
  ELSE Panic(self, "Stackoverflow on RET")

\* decode
nnn_of(op) == op % 4096

kk_of(op) == op % 256

x_of(op) == (op % 4096) \div 256

y_of(op) == (op % 256) \div 16

n_of(op) == op % 16

family_of(op) == op \div 4096

\* 0x0000 => match self.opcode & 0x00FF
arm_0(self) ==
  LET low == kk_of(self.opcode)
  IN IF low = 224 THEN cls(self)
     ELSE IF low = 238 THEN ret(self)
     ELSE [self EXCEPT !.stderr = "Unknown 0x0NNN opcode"]

\* 0x1000: JMP addr
arm_1(self) == [self EXCEPT !.pc = nnn_of(self.opcode)]

\* 0x2000: CALL addr
arm_2(self) ==
  IF self.sp >= STACK_SIZE
  THEN Panic(self, "Stack overflow")
  ELSE [self EXCEPT !.stack[self.sp] = self.pc + 2,
                    !.sp = self.sp + 1,
                    !.pc = nnn_of(self.opcode)]

\* 0x3000: SE Vx, byte
arm_3(self) ==
  IF self.registers[x_of(self.opcode)] = kk_of(self.opcode)
  THEN [self EXCEPT !.pc = self.pc + 2]
  ELSE self

\* 0x4000: SNE Vx, byte
arm_4(self) ==
  IF self.registers[x_of(self.opcode)] # kk_of(self.opcode)
  THEN [self EXCEPT !.pc = self.pc + 2]
  ELSE self

\* 0x5000: SE Vx, Vy
arm_5(self) ==
  IF self.registers[x_of(self.opcode)] = self.registers[y_of(self.opcode)]
  THEN [self EXCEPT !.pc = self.pc + 2]
  ELSE self

\* 0x6000: LD Vx, byte
arm_6(self) == [self EXCEPT !.registers[x_of(self.opcode)] = kk_of(self.opcode)]

\* 0x7000: ADD Vx, byte (wrapping_add)
arm_7(self) ==
  LET vx == x_of(self.opcode)
  IN [self EXCEPT !.registers[vx] = (self.registers[vx] + kk_of(self.opcode)) % 256]

\* 0x8xy0: LD Vx, Vy
arm_8_0(self) ==
  [self EXCEPT !.registers[x_of(self.opcode)] = self.registers[y_of(self.opcode)]]

\* 0x8xy1: OR Vx, Vy (the statement is a comparison: nothing is stored)
arm_8_1(self) == self

\* 0x8xy2: AND Vx, Vy
arm_8_2(self) ==
  LET vx == x_of(self.opcode)
      vy == y_of(self.opcode)
  IN [self EXCEPT !.registers[vx] = BitAnd(self.registers[vx], self.registers[vy])]

\* 0x8xy3: XOR Vx, Vy
arm_8_3(self) ==
  LET vx == x_of(self.opcode)
      vy == y_of(self.opcode)
  IN [self EXCEPT !.registers[vx] = BitXor(self.registers[vx], self.registers[vy])]

\* 0x8xy4: ADD Vx, Vy.  The sum is formed in u8 and only then widened.
arm_8_4(self) ==
  LET vx == x_of(self.opcode)
      vy == y_of(self.opcode)
      wide == self.registers[vx] + self.registers[vy]
  IN IF wide > 255 /\ overflow_checks
     THEN Panic(self, AddOverflow)
     ELSE LET sum == wide % 256
              flagged == [self EXCEPT !.registers[15] = IF sum > 255 THEN 1 ELSE 0]
          IN [flagged EXCEPT !.registers[vx] = BitAnd(sum, 255)]

\* 0x8xy5: SUB Vx, Vy.  The subtraction reads the registers after the flag
\* has been stored.
arm_8_5(self) ==
  LET vx == x_of(self.opcode)
      vy == y_of(self.opcode)
      flagged == [self EXCEPT !.registers[15] =
                    IF self.registers[vx] > self.registers[vy] THEN 1 ELSE 0]
      diff == flagged.registers[vx] - flagged.registers[vy]
  IN IF diff < 0 /\ overflow_checks
     THEN Panic(flagged, SubOverflow)
     ELSE [flagged EXCEPT !.registers[vx] = diff % 256]

\* 0x8xy6: SHR Vx
arm_8_6(self) ==
  LET vx == x_of(self.opcode)
      flagged == [self EXCEPT !.registers[15] = BitAnd(self.registers[vx], 1)]
  IN [flagged EXCEPT !.registers[vx] = Shr(flagged.registers[vx], 1)]

\* 0x8xy7: SUBN Vx, Vy
arm_8_7(self) ==
  LET vx == x_of(self.opcode)
      vy == y_of(self.opcode)
      flagged == [self EXCEPT !.registers[15] =
                    IF self.registers[vy] > self.registers[vx] THEN 1 ELSE 0]
      diff == flagged.registers[vy] - flagged.registers[vx]
  IN IF diff < 0 /\ overflow_checks
     THEN Panic(flagged, SubOverflow)
     ELSE [flagged EXCEPT !.registers[vx] = diff % 256]

\* 0x8xyE: SHL Vx
arm_8_E(self) ==
  LET vx == x_of(self.opcode)
      flagged == [self EXCEPT !.registers[15] =
                    Shr(BitAnd(self.registers[vx], 128), 7)]
  IN [flagged EXCEPT !.registers[vx] = Shl(flagged.registers[vx], 1, 256)]

\* 0x8000 => match self.opcode & 0x000F
arm_8(self) ==
  LET sub == n_of(self.opcode)
  IN CASE sub = 0 -> arm_8_0(self)
       [] sub = 1 -> arm_8_1(self)
       [] sub = 2 -> arm_8_2(self)
       [] sub = 3 -> arm_8_3(self)
       [] sub = 4 -> arm_8_4(self)
       [] sub = 5 -> arm_8_5(self)
       [] sub = 6 -> arm_8_6(self)
       [] sub = 7 -> arm_8_7(self)
       [] sub = 14 -> arm_8_E(self)
       [] OTHER -> [self EXCEPT !.stderr = "Unknown opcode"]

\* 0xE000 => match self.opcode & 0x00FF: 9E and A1 have empty bodies
arm_E(self) ==
  IF kk_of(self.opcode) \in {158, 161} THEN self
  ELSE [self EXCEPT !.stderr = "Unknown opcode"]

\* Family 0xF with the arm of Fx15 (LD DT, Vx) filled in: the delay timer
\* takes the value of Vx.
arm_F_loads_delay_timer(self) ==
  IF kk_of(self.opcode) = 21
  THEN [self EXCEPT !.delay_timer = self.registers[x_of(self.opcode)]]
  ELSE IF kk_of(self.opcode) \in {7, 10, 24, 30, 41, 51, 85, 101} THEN self
  ELSE [self EXCEPT !.stderr = "Unknown opcode"]

\* 0xF000 => match self.opcode & 0x00FF: the nine defined words have empty
\* bodies
arm_F(self) ==
  IF kk_of(self.opcode) \in {7, 10, 21, 24, 30, 41, 51, 85, 101} THEN self
  ELSE [self EXCEPT !.stderr = "Unknown opcode"]

\* match self.opcode & 0xF000.  Families 0x9..0xD have empty bodies: the
\* struct is left as it is.
execute(self) ==
  LET family == family_of(self.opcode)
  IN CASE family = 0 -> arm_0(self)
       [] family = 1 -> arm_1(self)
       [] family = 2 -> arm_2(self)
       [] family = 3 -> arm_3(self)
       [] family = 4 -> arm_4(self)
       [] family = 5 -> arm_5(self)
       [] family = 6 -> arm_6(self)
       [] family = 7 -> arm_7(self)
       [] family = 8 -> arm_8(self)
       [] family = 14 -> arm_E(self)
       [] family = 15 -> arm_F(self)
       [] OTHER -> self

\* self.pc += 2
advance_pc(self) ==
  IF self.pc + 2 >= 65536 /\ overflow_checks
  THEN Panic(self, AddOverflow)
  ELSE [self EXCEPT !.pc = (self.pc + 2) % 65536, !.outcome = "()"]

\* Chip8::emulate_cycle
emulate_cycle(self) ==
  IF self.pc >= MEMORY_SIZE \/ self.pc + 1 >= MEMORY_SIZE
  THEN Panic(self, IndexOutOfBounds)
  ELSE LET fetched == [self EXCEPT !.opcode =
                         Shl(Read(self.memory, self.pc), 8, 65536)
                           + Read(self.memory, self.pc + 1),
                                   !.stderr = ""]
           done == execute(fetched)
       IN IF Panicked(done.outcome) THEN done ELSE advance_pc(done)

(***************************************************************************)
(* src/src/modules/chip8.rs                                                *)
(***************************************************************************)

\* Chip8::new (the random generator it builds is dropped)
modules_new == [new EXCEPT !.keypad = [i \in 0..15 |-> 0]]

\* Chip8::load_rom, the file read into buffer: the loop indexes memory
\* without a check, so the first byte past the end of memory panics, the
\* bytes before it written.
modules_load_rom(self, buf) ==
  LET written == { addr \in START_ADDRESS..(START_ADDRESS + Len(buf) - 1) :
                     addr < MEMORY_SIZE }
      byte(addr) == buf[addr - START_ADDRESS + 1]
      nonzero == (DOMAIN self.memory \ written)
                   \cup { addr \in written : byte(addr) # 0 }
      mem == [addr \in nonzero |->
                IF addr \in written THEN byte(addr) ELSE self.memory[addr]]
  IN IF START_ADDRESS + Len(buf) > MEMORY_SIZE
     THEN Panic([self EXCEPT !.memory = mem], IndexOutOfBounds)
     ELSE [self EXCEPT !.memory = mem, !.outcome = "Ok(())"]

\* The handlers return (); a handler that did not panic ends with this.
Returned(self) == [self EXCEPT !.outcome = "()"]

\* ((self.opcode & 0x0FFF) >> 8) as usize
wide_vx(op) == Shr(op % 4096, 8)

\* ((self.opcode & 0x0FFF) >> 4) as usize
wide_vy(op) == Shr(op % 4096, 4)

\* (self.opcode & 0x0FFF) as u8
wide_byte(op) == (op % 4096) % 256

\* self.pc += 2 in a handler
skip(self) ==
  IF self.pc + 2 >= 65536 /\ overflow_checks
  THEN Panic(self, AddOverflow)
  ELSE Returned([self EXCEPT !.pc = (self.pc + 2) % 65536])

\* 00E0: CLS
op_00e0(self) == Returned([self EXCEPT !.video = Zeroed])

\* 00EE: RET
op_00ee(self) ==
  IF self.sp = 0 /\ overflow_checks
  THEN Panic(self, SubOverflow)
  ELSE LET popped == [self EXCEPT !.sp = (self.sp - 1) % 256]
       IN IF popped.pc >= STACK_SIZE
          THEN Panic(popped, IndexOutOfBounds)
          ELSE Returned([popped EXCEPT !.pc = popped.stack[popped.pc]])

\* 1nnn: JP addr
op_1nnn(self) == Returned([self EXCEPT !.pc = self.opcode % 4096])

\* 2nnn: CALL addr
op_2nnn(self) ==
  IF self.sp >= STACK_SIZE
  THEN Panic(self, IndexOutOfBounds)
  ELSE LET pushed == [self EXCEPT !.stack[self.sp] = self.pc]
       IN IF pushed.sp + 1 >= 256 /\ overflow_checks
          THEN Panic(pushed, AddOverflow)
          ELSE Returned([pushed EXCEPT !.sp = (pushed.sp + 1) % 256,
                                       !.pc = self.opcode % 4096])

\* 3xkk: SE Vx, byte
op_3xkk(self) ==
  IF self.registers[wide_vx(self.opcode)] = wide_byte(self.opcode)
  THEN skip(self)
  ELSE Returned(self)

\* 4xkk: SNE Vx, byte
op_4xkk(self) ==
  IF self.registers[wide_vx(self.opcode)] # wide_byte(self.opcode)
  THEN skip(self)
  ELSE Returned(self)

\* 5xy0: SE Vx, Vy
op_5xy0(self) ==
  LET vx == wide_vx(self.opcode)
      vy == wide_vy(self.opcode)
  IN IF vy >= 16 THEN Panic(self, IndexOutOfBounds)
     ELSE IF self.registers[vx] = self.registers[vy] THEN skip(self)
     ELSE Returned(self)

\* 6xkk: LD Vx, byte
op_6xkk(self) ==
  Returned([self EXCEPT !.registers[wide_vx(self.opcode)] = wide_byte(self.opcode)])

\* 7xkk: ADD Vx, byte
op_7xkk(self) ==
  LET vx == wide_vx(self.opcode)
      vy == wide_vy(self.opcode)
  IN IF vy >= 16 THEN Panic(self, IndexOutOfBounds)
     ELSE Returned([self EXCEPT !.registers[vx] = self.registers[vy]])

\* 8xy1: OR Vx, Vy
op_8xy1(self) ==
  IF wide_vy(self.opcode) >= 16 THEN Panic(self, IndexOutOfBounds)
  ELSE Returned(self)

\* 8xy2: AND Vx, Vy
op_8xy2(self) ==
  LET vx == wide_vx(self.opcode)
      vy == wide_vy(self.opcode)
  IN IF vy >= 16 THEN Panic(self, IndexOutOfBounds)
     ELSE Returned([self EXCEPT !.registers[vx] =
                      BitAnd(self.registers[vx], self.registers[vy])])

\* 8xy3: XOR Vx, Vy
op_8xy3(self) ==
  LET vx == wide_vx(self.opcode)
      vy == wide_vy(self.opcode)
  IN IF vy >= 16 THEN Panic(self, IndexOutOfBounds)
     ELSE Returned([self EXCEPT !.registers[vx] =
                      BitXor(self.registers[vx], self.registers[vy])])

\* 8xy4: ADD Vx, Vy
op_8xy4(self) ==
  LET vx == wide_vx(self.opcode)
      vy == wide_vy(self.opcode)
  IN IF vy >= 16 THEN Panic(self, IndexOutOfBounds)
     ELSE LET sum == self.registers[vx] + self.registers[vy]
              flagged == [self EXCEPT !.registers[15] = IF sum > 255 THEN 1 ELSE 0]
          IN Returned([flagged EXCEPT !.registers[vx] = BitAnd(sum, 255)])

\* 8xy5: SUB Vx, Vy
op_8xy5(self) ==
  LET vx == wide_vx(self.opcode)
      vy == wide_vy(self.opcode)
  IN IF vy >= 16 THEN Panic(self, IndexOutOfBounds)
     ELSE LET flagged == [self EXCEPT !.registers[15] =
                            IF self.registers[vx] > self.registers[vy] THEN 1 ELSE 0]
              diff == flagged.registers[vx] - flagged.registers[vy]
          IN IF diff < 0 /\ overflow_checks
             THEN Panic(flagged, SubOverflow)
             ELSE Returned([flagged EXCEPT !.registers[vx] = diff % 256])

\* 8xy6: SHR Vx
op_8xy6(self) ==
  LET vx == x_of(self.opcode)
      flagged == [self EXCEPT !.registers[15] = BitAnd(self.registers[vx], 1)]
  IN Returned([flagged EXCEPT !.registers[vx] = Shr(flagged.registers[vx], 1)])

\* 8xy7: SUBN Vx, Vy
op_8xy7(self) ==
  LET vx == x_of(self.opcode)
      vy == y_of(self.opcode)
      flagged == [self EXCEPT !.registers[15] =
                    IF self.registers[vx] > self.registers[vy] THEN 1 ELSE 0]
      diff == flagged.registers[vy] - flagged.registers[vx]
  IN IF diff < 0 /\ overflow_checks
     THEN Panic(flagged, SubOverflow)
     ELSE Returned([flagged EXCEPT !.registers[vx] = diff % 256])

\* 8xyE: SHL Vx {, Vy}
op_8xye(self) ==
  LET vx == Shr(BitAnd(self.opcode, 3840), 7)
  IN IF vx >= 16 THEN Panic(self, IndexOutOfBounds)
     ELSE LET flagged == [self EXCEPT !.registers[15] =
                            Shr(BitAnd(self.registers[vx], 128), 7)]
          IN Returned([flagged EXCEPT !.registers[vx] =
                         Shl(flagged.registers[vx], 1, 256)])

\* 9xy0: SNE Vx, Vy
op_9xy0(self) ==
  LET vx == Shr(BitAnd(self.opcode, 4080), 8)
      vy == Shr(BitAnd(self.opcode, 4080), 4)
  IN IF vy >= 16 THEN Panic(self, IndexOutOfBounds)
     ELSE IF self.registers[vx] # self.registers[vy] THEN skip(self)
     ELSE Returned(self)

\* Annn: LD I, addr
op_annn(self) == Returned([self EXCEPT !.index = self.opcode % 4096])

\* Bnnn: JP V0 addr
op_bnnn(self) ==
  LET target == self.registers[0] + (self.opcode % 4096)
  IN IF target >= 65536 /\ overflow_checks
     THEN Panic(self, AddOverflow)
     ELSE Returned([self EXCEPT !.pc = target % 65536])

(***************************************************************************)
(* The program images the model loads.                                     *)
(***************************************************************************)

\* Sample byte values and register indices for operands.
SampleBytes == {0, 1, 127, 128, 255}

SampleRegs == {0, 1, 15}

\* How many bytes longer than the load region (4096 - 0x200) an image may be.
MaxExcess == 1

MaxRomLen == MEMORY_SIZE - START_ADDRESS

\* The bytes of a list of 16-bit words, big-endian.
Program(words) ==
  [i \in 1..(2 * Len(words)) |->
     IF i % 2 = 1 THEN words[(i + 1) \div 2] \div 256 ELSE words[i \div 2] % 256]

\* An image of len bytes, zero except for the words at the given addresses.
Image(len, at) ==
  [i \in 1..len |->
     LET addr == START_ADDRESS + (i - 1)
         base == addr - (addr % 2)
     IN IF base \in DOMAIN at
        THEN IF addr % 2 = 0 THEN at[base] \div 256 ELSE at[base] % 256
        ELSE 0]

\* An image of len bytes, each one b.
Filled(len, b) == [i \in 1..len |-> b]

JP(addr) == 4096 + addr

CALL(addr) == 8192 + addr

RET == 238

CLS == 224

LD(x, kk) == 24576 + 256 * x + kk

OpXKK(family, x, kk) == 4096 * family + 256 * x + kk

OpXYN(family, x, y, n) == 4096 * family + 256 * x + 16 * y + n

\* The word that, placed as the k-th word (from 0) of an image, keeps the
\* machine of src/src/chip8.rs at that word: JMP to the word before it.
Halt(k) == JP(START_ADDRESS + 2 * k - 2)

\* Vx := a, Vy := b, then one instruction on x and y.
OperandRoms ==
  { Program(<< LD(x, a), LD(y, b), w, Halt(3), Halt(4) >>) :
      << x, y, a, b, w >> \in
        UNION { { << x, y, a, b, w >> :
                    w \in { OpXYN(8, x, y, n) : n \in {0, 1, 2, 3, 4, 5, 6, 7, 8, 14} }
                          \cup { OpXYN(5, x, y, 0), OpXYN(9, x, y, 0) }
                          \cup { OpXKK(f, x, kk) : f \in {3, 4, 7}, kk \in {a, b, 1} } } :
                << x, y, a, b >> \in SampleRegs \X SampleRegs \X SampleBytes \X SampleBytes } }

JumpTargets == {510, 768, 4092, 4093, 4094, 4095}

\* One word of each family whose arm is empty, and the stores of family F.
StubWords ==
  << 36880, 41251, 45572, 49407, 57502, 57505, 61447, 61461, 61464, 61470,
     61481, 61491, 61525, 61541 >>

ControlRoms ==
  { Program(<< JP(t) >>) : t \in JumpTargets }
  \cup { Program(<< CALL(510) >>),                        \* calls itself
         Program(<< RET >>),
         Program(<< CLS, Halt(1) >>),
         Program(<< 0, Halt(1) >>),
         Program(<< 61450, 57502, 53253, Halt(3) >>),      \* Fx0A, Ex9E, Dxyn
         Program(<< 61695, 57344, Halt(2) >>),             \* F0FF, E000: undefined
         Program(<< LD(0, 1) >> \o StubWords \o << Halt(15) >>),
         Image(258, (512 :> CALL(768)) @@ (768 :> RET)),
         Image(264, (512 :> CALL(768)) @@ (516 :> Halt(2)) @@ (768 :> RET)
                     @@ (770 :> RET) @@ (772 :> Halt(130))),
         Program(<< CALL(514), JP(524), CALL(520), RET, CALL(4094), RET, Halt(6) >>) }

SizeRoms ==
  { Filled(len, 18) : len \in (MaxRomLen - 1)..(MaxRomLen + MaxExcess) }
  \cup { << >> }

Roms == OperandRoms \cup ControlRoms \cup SizeRoms

(***************************************************************************)
(* The machine of src/src/chip8.rs: new, then load_rom, then steps.        *)
(***************************************************************************)
Init ==
  /\ memory = new.memory
  /\ registers = new.registers
  /\ index = new.index
  /\ pc = new.pc
  /\ stack = new.stack
  /\ sp = new.sp
  /\ delay_timer = new.delay_timer
  /\ sound_timer = new.sound_timer
  /\ video = new.video
  /\ keypad = new.keypad
  /\ opcode = new.opcode
  /\ stderr = new.stderr
  /\ outcome = new.outcome
  /\ overflow_checks \in BOOLEAN
  /\ buffer = << >>
  /\ script = << >>

LoadRom ==
  /\ outcome = "none"
  /\ \E bytes \in Roms :
       /\ Becomes(load_rom(Self, bytes))
       /\ buffer' = bytes
  /\ UNCHANGED script

\* fs::File::open or read_to_end fails: load_rom returns the error.
LoadRomFails ==
  /\ outcome = "none"
  /\ Becomes([Self EXCEPT !.outcome = "Err(io)"])
  /\ UNCHANGED << buffer, script >>

EmulateCycle ==
  /\ outcome \in {"Ok(())", "()"}
  /\ Becomes(emulate_cycle(Self))
  /\ UNCHANGED << buffer, script >>

Next == LoadRom \/ LoadRomFails \/ EmulateCycle

Spec == Init /\ [][Next]_vars

(***************************************************************************)
(* The machine of src/src/modules/chip8.rs: new, then calls of load_rom    *)
(* and of the handlers.  The file has no fetch and no dispatch: its caller *)
(* stores each instruction word in the public field opcode and calls the   *)
(* handler named after the word's pattern (the comment above the handler). *)
(* script is the list of words the caller goes through.                    *)
(***************************************************************************)

SampleAddrs == {2, 4, 768, 4095}

\* Vx := a, Vy := b, then one instruction on x and y.
OperandScripts ==
  { << LD(x, a), LD(y, b), w >> :
      << x, y, a, b, w >> \in
        UNION { { << x, y, a, b, w >> :
                    w \in { OpXYN(8, x, y, n) : n \in {1, 2, 3, 4, 5, 6, 7, 14} }
                          \cup { OpXYN(5, x, y, 0), OpXYN(9, x, y, 0) }
                          \cup { OpXKK(f, x, kk) : f \in {3, 4, 7}, kk \in {a, b, 1} } } :
                << x, y, a, b >> \in SampleRegs \X SampleRegs \X SampleBytes \X SampleBytes } }

ControlScripts ==
  { << JP(t) >> : t \in SampleAddrs }
  \cup { << LD(0, v), 45056 + t >> : v \in SampleBytes, t \in SampleAddrs }   \* Bnnn
  \cup { << 40960 + t >> : t \in SampleAddrs }                              \* Annn
  \cup { << >>,
         << CLS >>,
         << RET >>,
         << CALL(768), RET >>,
         << JP(4), CALL(2), RET >>,
         << JP(2), CALL(4), CALL(6), RET, RET >>,
         [i \in 1..(STACK_SIZE + 1) |-> CALL(768)] }

Scripts == OperandScripts \cup ControlScripts

InitModules ==
  /\ memory = modules_new.memory
  /\ registers = modules_new.registers
  /\ index = modules_new.index
  /\ pc = modules_new.pc
  /\ stack = modules_new.stack
  /\ sp = modules_new.sp
  /\ delay_timer = modules_new.delay_timer
  /\ sound_timer = modules_new.sound_timer
  /\ video = modules_new.video
  /\ keypad = modules_new.keypad
  /\ opcode = modules_new.opcode
  /\ stderr = modules_new.stderr
  /\ outcome = modules_new.outcome
  /\ overflow_checks \in BOOLEAN
  /\ buffer = << >>
  /\ script \in Scripts

\* The longest script that is explored with an image loaded first (the
\* handlers neither read nor write memory).
MaxScriptAfterLoad == 1

call_load_rom ==
  /\ outcome = "none"
  /\ Len(script) <= MaxScriptAfterLoad
  /\ \E bytes \in SizeRoms :
       /\ Becomes(modules_load_rom(Self, bytes))
       /\ buffer' = bytes
  /\ UNCHANGED script

\* File::open, seek or read_exact fails: load_rom returns the error.
call_load_rom_fails ==
  /\ outcome = "none"
  /\ Len(script) <= MaxScriptAfterLoad
  /\ Becomes([Self EXCEPT !.outcome = "Err(io)"])
  /\ UNCHANGED << buffer, script >>

CanCall == outcome \in {"none", "Ok(())", "()"} /\ script # << >>

call_op_00e0 ==
  /\ CanCall
  /\ LET op == Head(script)
     IN /\ op = CLS
        /\ Becomes(op_00e0([Self EXCEPT !.opcode = op]))
  /\ script' = Tail(script)
  /\ UNCHANGED buffer

call_op_00ee ==
  /\ CanCall
  /\ LET op == Head(script)
     IN /\ op = RET
        /\ Becomes(op_00ee([Self EXCEPT !.opcode = op]))
  /\ script' = Tail(script)
  /\ UNCHANGED buffer

call_op_1nnn ==
  /\ CanCall
  /\ LET op == Head(script)
     IN /\ family_of(op) = 1
        /\ Becomes(op_1nnn([Self EXCEPT !.opcode = op]))
  /\ script' = Tail(script)
  /\ UNCHANGED buffer

call_op_2nnn ==
  /\ CanCall
  /\ LET op == Head(script)
     IN /\ family_of(op) = 2
        /\ Becomes(op_2nnn([Self EXCEPT !.opcode = op]))
  /\ script' = Tail(script)
  /\ UNCHANGED buffer

call_op_3xkk ==
  /\ CanCall
  /\ LET op == Head(script)
     IN /\ family_of(op) = 3
        /\ Becomes(op_3xkk([Self EXCEPT !.opcode = op]))
  /\ script' = Tail(script)
  /\ UNCHANGED buffer

call_op_4xkk ==
  /\ CanCall
  /\ LET op == Head(script)
     IN /\ family_of(op) = 4
        /\ Becomes(op_4xkk([Self EXCEPT !.opcode = op]))
  /\ script' = Tail(script)
  /\ UNCHANGED buffer

call_op_5xy0 ==
  /\ CanCall
  /\ LET op == Head(script)
     IN /\ family_of(op) = 5 /\ n_of(op) = 0
        /\ Becomes(op_5xy0([Self EXCEPT !.opcode = op]))
  /\ script' = Tail(script)
  /\ UNCHANGED buffer

call_op_6xkk ==
  /\ CanCall
  /\ LET op == Head(script)
     IN /\ family_of(op) = 6
        /\ Becomes(op_6xkk([Self EXCEPT !.opcode = op]))
  /\ script' = Tail(script)
  /\ UNCHANGED buffer

call_op_7xkk ==
  /\ CanCall
  /\ LET op == Head(script)
     IN /\ family_of(op) = 7
        /\ Becomes(op_7xkk([Self EXCEPT !.opcode = op]))
  /\ script' = Tail(script)
  /\ UNCHANGED buffer

call_op_8xy1 ==
  /\ CanCall
  /\ LET op == Head(script)
     IN /\ family_of(op) = 8 /\ n_of(op) = 1
        /\ Becomes(op_8xy1([Self EXCEPT !.opcode = op]))
  /\ script' = Tail(script)
  /\ UNCHANGED buffer

call_op_8xy2 ==
  /\ CanCall
  /\ LET op == Head(script)
     IN /\ family_of(op) = 8 /\ n_of(op) = 2
        /\ Becomes(op_8xy2([Self EXCEPT !.opcode = op]))
  /\ script' = Tail(script)
  /\ UNCHANGED buffer

call_op_8xy3 ==
  /\ CanCall
  /\ LET op == Head(script)
     IN /\ family_of(op) = 8 /\ n_of(op) = 3
        /\ Becomes(op_8xy3([Self EXCEPT !.opcode = op]))
  /\ script' = Tail(script)
  /\ UNCHANGED buffer

call_op_8xy4 ==
  /\ CanCall
  /\ LET op == Head(script)
     IN /\ family_of(op) = 8 /\ n_of(op) = 4
        /\ Becomes(op_8xy4([Self EXCEPT !.opcode = op]))
  /\ script' = Tail(script)
  /\ UNCHANGED buffer

call_op_8xy5 ==
  /\ CanCall
  /\ LET op == Head(script)
     IN /\ family_of(op) = 8 /\ n_of(op) = 5
        /\ Becomes(op_8xy5([Self EXCEPT !.opcode = op]))
  /\ script' = Tail(script)
  /\ UNCHANGED buffer

call_op_8xy6 ==
  /\ CanCall
  /\ LET op == Head(script)
     IN /\ family_of(op) = 8 /\ n_of(op) = 6
        /\ Becomes(op_8xy6([Self EXCEPT !.opcode = op]))
  /\ script' = Tail(script)
  /\ UNCHANGED buffer

call_op_8xy7 ==
  /\ CanCall
  /\ LET op == Head(script)
     IN /\ family_of(op) = 8 /\ n_of(op) = 7
        /\ Becomes(op_8xy7([Self EXCEPT !.opcode = op]))
  /\ script' = Tail(script)
  /\ UNCHANGED buffer

call_op_8xye ==
  /\ CanCall
  /\ LET op == Head(script)
     IN /\ family_of(op) = 8 /\ n_of(op) = 14
        /\ Becomes(op_8xye([Self EXCEPT !.opcode = op]))
  /\ script' = Tail(script)
  /\ UNCHANGED buffer

call_op_9xy0 ==
  /\ CanCall
  /\ LET op == Head(script)
     IN /\ family_of(op) = 9 /\ n_of(op) = 0
        /\ Becomes(op_9xy0([Self EXCEPT !.opcode = op]))
  /\ script' = Tail(script)
  /\ UNCHANGED buffer

call_op_annn ==
  /\ CanCall
  /\ LET op == Head(script)
     IN /\ family_of(op) = 10
        /\ Becomes(op_annn([Self EXCEPT !.opcode = op]))
  /\ script' = Tail(script)
  /\ UNCHANGED buffer

call_op_bnnn ==
  /\ CanCall
  /\ LET op == Head(script)
     IN /\ family_of(op) = 11
        /\ Becomes(op_bnnn([Self EXCEPT !.opcode = op]))
  /\ script' = Tail(script)
  /\ UNCHANGED buffer

NextModules ==
  \/ call_load_rom
  \/ call_load_rom_fails
  \/ call_op_00e0
  \/ call_op_00ee
  \/ call_op_1nnn
  \/ call_op_2nnn
  \/ call_op_3xkk
  \/ call_op_4xkk
  \/ call_op_5xy0
  \/ call_op_6xkk
  \/ call_op_7xkk
  \/ call_op_8xy1
  \/ call_op_8xy2
  \/ call_op_8xy3
  \/ call_op_8xy4
  \/ call_op_8xy5
  \/ call_op_8xy6
  \/ call_op_8xy7
  \/ call_op_8xye
  \/ call_op_9xy0
  \/ call_op_annn
  \/ call_op_bnnn

SpecModules == InitModules /\ [][NextModules]_vars

(***************************************************************************)
(* emulate_cycle of src/src/chip8.rs as a function of the struct: the      *)
(* machine after new and load_rom, with the fields that no instruction of  *)
(* this interpreter writes yet (index, the timers, video, keypad: their    *)
(* arms are empty) drawn from sample values, then steps.                   *)
(***************************************************************************)

\* The cells a sprite of n rows at mem[idx..] covers with a set bit when it
\* is placed with its top left corner at column vx, row vy (the cells that
\* fall inside the 64 x 32 frame), row-major.
SpriteCells(mem, idx, n, vx, vy) ==
  { (vy + r) * VIDEO_WIDTH + (vx + c) :
      << r, c >> \in { rc \in (0..(n - 1)) \X (0..7) :
                        /\ (Read(mem, idx + rc[1]) \div Pow2(7 - rc[2])) % 2 = 1
                        /\ vx + rc[2] < VIDEO_WIDTH
                        /\ vy + rc[1] < VIDEO_HEIGHT } }

\* The frame with exactly the given cells on.
Lit(cells) == [cell \in cells |-> 1]

SampleVideos ==
  { Zeroed,
    Lit({0}),
    Lit({VIDEO_WIDTH * VIDEO_HEIGHT - 1, 65}),
    Lit(SpriteCells(new.memory, FONTSET_START_ADDRESS, 5, 0, 0)) }

SampleIndexes == {0, FONTSET_START_ADDRESS}

SampleTimers == { << 0, 0 >>, << 60, 30 >> }

SampleKeypads ==
  { [k \in 0..15 |-> FALSE], [k \in 0..15 |-> k = 5] }

StepRoms ==
  ControlRoms
  \cup { Program(<< 53253, 53253, Halt(2) >>),              \* DRW V0,V0,5 twice
         Program(<< LD(0, 1), 53265, Halt(2) >>),            \* DRW V0,V1,1
         Program(<< 62730, LD(1, 7), Halt(2) >>),            \* LD V5,K; LD V1,7
         Program(<< 0, CLS, 36864, Halt(3) >>) }
  \cup { Program(<< LD(x, a), OpXKK(7, x, kk), Halt(2) >>) :
           << x, a, kk >> \in SampleRegs \X {1, 255} \X {1, 255} }

InitStep ==
  /\ \E rom \in StepRoms :
       /\ memory = load_rom_loop(new.memory, rom)
       /\ buffer = rom
  /\ registers = new.registers
  /\ index \in SampleIndexes
  /\ pc = new.pc
  /\ stack = new.stack
  /\ sp = new.sp
  /\ \E timers \in SampleTimers :
       /\ delay_timer = timers[1]
       /\ sound_timer = timers[2]
  /\ video \in SampleVideos
  /\ keypad \in SampleKeypads
  /\ opcode = new.opcode
  /\ stderr = new.stderr
  /\ outcome = "Ok(())"
  /\ overflow_checks \in BOOLEAN
  /\ script = << >>

NextStep == EmulateCycle

SpecStep == InitStep /\ [][NextStep]_vars

(***************************************************************************)
(* The claims.                                                             *)
(***************************************************************************)

\* The machine is between two instructions.
Running == outcome \in {"Ok(())", "()"}

\* A step of emulate_cycle whose fetch is inside memory: opcode' is the word
\* it fetched.
Fetched == Running /\ pc + 1 < MEMORY_SIZE /\ outcome' # "Ok(())"

\* C1: at every instruction boundary pc is even and inside memory, so the
\* two-byte fetch at memory[pc], memory[pc + 1] never leaves the 4096 bytes
\* (emulate_cycle never panics on its fetch).
C1_PcEvenAndInMemory ==
  /\ outcome \in {"none", "Ok(())", "()"} => pc % 2 = 0 /\ pc >= 0 /\ pc < MEMORY_SIZE
  /\ outcome # "panic: " \o IndexOutOfBounds

\* C2: CALL/RET round trip.  A step at address a that executes CALL nnn with
\* sp < 16 saves a + 2 at stack[sp] and raises sp by one; the step that
\* executes the matching RET (the one that finds sp one above the CALL's
\* value) ends with pc equal to that saved a + 2 and with sp back at the
\* CALL's value.
C2_CallRetRoundTrip ==
  [][ /\ (Fetched /\ family_of(opcode') = 2 /\ sp < STACK_SIZE)
         => (outcome' = "()" /\ stack'[sp] = pc + 2 /\ sp' = sp + 1)
      /\ (Fetched /\ opcode' = RET /\ sp > 0)
         => (outcome' = "()" /\ pc' = stack[sp - 1] /\ sp' = sp - 1) ]_vars

\* C3: after a step that fetched 1nnn, pc is exactly nnn.
C3_JpSetsPcToNnn ==
  (outcome = "()" /\ family_of(opcode) = 1) => pc = nnn_of(opcode)

\* C4: a step that executes CALL with sp = 16, or RET with sp = 0, ends in
\* the reported error StackOverflow, respectively StackUnderflow, not in an
\* abort, and leaves stack and sp as they were.
C4_StackErrorsAreReported ==
  [][ /\ (Fetched /\ family_of(opcode') = 2 /\ sp = STACK_SIZE)
         => (outcome' = "Err(StackOverflow)" /\ stack' = stack /\ sp' = sp)
      /\ (Fetched /\ family_of(opcode') = 0 /\ kk_of(opcode') = RET /\ sp = 0)
         => (outcome' = "Err(StackUnderflow)" /\ stack' = stack /\ sp' = sp) ]_vars

\* A call of a handler of src/src/modules/chip8.rs: opcode' is the word the
\* caller dispatched.
Dispatched == script # << >> /\ script' = Tail(script)

\* C5: sp stays in 0..16, no stack access of CALL or RET leaves the 16
\* entries, and RET takes pc from the entry at the decremented stack pointer.
C5_StackDiscipline ==
  [][ (Dispatched /\ (family_of(opcode') = 2 \/ opcode' = RET))
        => /\ sp' \in 0..STACK_SIZE
           /\ outcome' # "panic: " \o IndexOutOfBounds
           /\ (opcode' = RET /\ outcome' = "()") => pc' = stack[sp'] ]_vars

\* The stack discipline of C5 as emulate_cycle of src/src/chip8.rs keeps it
\* (CALL arm and ret, pc advanced by 2 after the pop): holds under Spec.
C5_OnEmulateCycle ==
  [][ (Fetched /\ (family_of(opcode') = 2
                   \/ (family_of(opcode') = 0 /\ kk_of(opcode') = RET)))
        => /\ sp' \in 0..STACK_SIZE
           /\ outcome' # "panic: " \o IndexOutOfBounds
           /\ (family_of(opcode') = 0 /\ outcome' = "()") => pc' = stack[sp'] + 2 ]_vars

\* C6: ADD Vx,Vy with x # 0xF, a = registers[x] and b = registers[y] before
\* the step: the step completes, registers[0xF] is 1 exactly when
\* a + b > 255, and registers[x] is (a + b) mod 256.
C6_AddFlagLaw ==
  [][ (Fetched /\ family_of(opcode') = 8 /\ n_of(opcode') = 4 /\ x_of(opcode') # 15)
        => LET a == registers[x_of(opcode')]
               b == registers[y_of(opcode')]
           IN /\ outcome' = "()"
              /\ (registers'[15] = 1) <=> (a + b > 255)
              /\ registers'[x_of(opcode')] = (a + b) % 256 ]_vars

\* C7: SUB Vx,Vy with x # 0xF, a = registers[x] and b = registers[y] before
\* the step: the step completes (also when a < b), registers[0xF] is 1
\* exactly when a >= b, and registers[x] is (a - b) mod 256.
C7_SubFlagLaw ==
  [][ (Fetched /\ family_of(opcode') = 8 /\ n_of(opcode') = 5 /\ x_of(opcode') # 15)
        => LET a == registers[x_of(opcode')]
               b == registers[y_of(opcode')]
           IN /\ outcome' = "()"
              /\ (registers'[15] = 1) <=> (a >= b)
              /\ registers'[x_of(opcode')] = (a - b) % 256 ]_vars

\* C8: SHR Vx leaves registers[0xF] equal to the lowest bit of the value v
\* that registers[x] held, SHL Vx leaves it equal to the highest bit of v,
\* for every x (0xF too); for x # 0xF the register ends as v >> 1,
\* respectively (v << 1) mod 256.
C8_ShiftFlagLaws ==
  [][ /\ (Fetched /\ family_of(opcode') = 8 /\ n_of(opcode') = 6)
         => LET v == registers[x_of(opcode')]
            IN /\ outcome' = "()"
               /\ registers'[15] = v % 2
               /\ x_of(opcode') # 15 => registers'[x_of(opcode')] = v \div 2
      /\ (Fetched /\ family_of(opcode') = 8 /\ n_of(opcode') = 14)
         => LET v == registers[x_of(opcode')]
            IN /\ outcome' = "()"
               /\ registers'[15] = v \div 128
               /\ x_of(opcode') # 15 => registers'[x_of(opcode')] = (2 * v) % 256 ]_vars

\* The skip condition of 3xkk, 4xkk and 5xy0 on the register file regs.
SkipCondition(op, regs) ==
  CASE family_of(op) = 3 -> regs[x_of(op)] = kk_of(op)
    [] family_of(op) = 4 -> regs[x_of(op)] # kk_of(op)
    [] family_of(op) = 5 -> regs[x_of(op)] = regs[y_of(op)]

\* C9, for the handlers op_3xkk, op_4xkk and op_5xy0 (their caller fetches,
\* and owes the instruction's own advance by 2): for every register content
\* and opcode the handler returns, with pc advanced by the skip's 2 when the
\* skip condition holds and pc as it was when it does not; the condition
\* compares registers[x], x being bits 8-11, with the low byte kk, for 5xy0
\* with registers[y], y being bits 4-7.
C9_SkipDelta ==
  [][ (Dispatched /\ (family_of(opcode') \in {3, 4}
                      \/ (family_of(opcode') = 5 /\ n_of(opcode') = 0)))
        => /\ outcome' = "()"
           /\ pc' = pc + (IF SkipCondition(opcode', registers) THEN 2 ELSE 0) ]_vars

\* The skip delta of C9 as emulate_cycle of src/src/chip8.rs computes it
\* (p + 4 taken, p + 2 not taken): holds under Spec.
C9_OnEmulateCycle ==
  [][ (Fetched /\ family_of(opcode') \in {3, 4, 5})
        => /\ outcome' = "()"
           /\ pc' = pc + (IF SkipCondition(opcode', registers) THEN 4 ELSE 2) ]_vars

\* C10: an image of exactly 4096 - 0x200 bytes loads, every byte written;
\* a longer one is refused with RomTooLarge and no byte of memory is
\* written.
C10_LoadBound ==
  /\ (outcome = "Ok(())" /\ Len(buffer) <= MaxRomLen)
       => \A i \in 1..Len(buffer) : Read(memory, START_ADDRESS + i - 1) = buffer[i]
  /\ Len(buffer) > MaxRomLen
       => (outcome = "Err(RomTooLarge)" /\ memory = new.memory)

\* An instruction word that matches no defined handler in its family.
Undefined(op) ==
  \/ family_of(op) = 0 /\ kk_of(op) \notin {CLS, RET}
  \/ family_of(op) = 8 /\ n_of(op) \notin {0, 1, 2, 3, 4, 5, 6, 7, 14}
  \/ family_of(op) = 14 /\ kk_of(op) \notin {158, 161}
  \/ family_of(op) = 15 /\ kk_of(op) \notin {7, 10, 21, 24, 30, 41, 51, 85, 101}

\* C11: a step that fetched a word with no defined handler in its family
\* ends in the InvalidOpcode outcome, which its caller receives and which no
\* step of a defined instruction ends in.
C11_InvalidOpcodeIsSignalled ==
  [][ (Fetched /\ Undefined(opcode')) => outcome' = "Err(InvalidOpcode)" ]_vars

\* No key of the keypad is pressed.
NoKeyPressed == \A k \in 0..15 : keypad[k] = FALSE

\* The last step fetched LD Vx,K (Fx0A).
FetchedKeyWait ==
  outcome = "()" /\ family_of(opcode) = 15 /\ kk_of(opcode) = 10

\* C12: once a step has fetched LD Vx,K, a further step taken while no key is
\* pressed leaves pc where it is and fetches no new instruction (opcode is
\* still the Fx0A, the registers are untouched).
C12_KeyWaitStalls ==
  [][ (FetchedKeyWait /\ NoKeyPressed /\ pc + 1 < MEMORY_SIZE)
        => (pc' = pc /\ opcode' = opcode /\ registers' = registers) ]_vars

\* C13: a step that executes 00E0 completes with all 64 * 32 video cells off
\* and pc advanced by exactly 2, and leaves registers, index, stack, sp and
\* memory as they were, whatever the frame held.
C13_ClsClearsVideo ==
  [][ (Fetched /\ opcode' = CLS)
        => /\ outcome' = "()"
           /\ \A cell \in 0..(VIDEO_WIDTH * VIDEO_HEIGHT - 1) : Read(video', cell) = 0
           /\ pc' = pc + 2
           /\ UNCHANGED << registers, index, stack, sp, memory >> ]_vars

\* CLS has been executed as the second instruction of an image.
C13_Witness ==
  /\ outcome = "()"
  /\ opcode = CLS
  /\ pc = START_ADDRESS + 4
  /\ video = Zeroed

\* The register file after LD Vx,byte or ADD Vx,byte on the register file
\* regs: registers[x] is kk, respectively (registers[x] + kk) mod 256, every
\* other register as it was.
ByteResult(op, regs) ==
  [regs EXCEPT ![x_of(op)] =
     IF family_of(op) = 6 THEN kk_of(op) ELSE (regs[x_of(op)] + kk_of(op)) % 256]

\* C14, for the handlers op_6xkk and op_7xkk (their caller fetches, and owes
\* the instruction's advance by 2): the handler returns with registers[x] set
\* to kk, respectively to (registers[x] + kk) mod 256, x being bits 8-11 and
\* kk the low byte; every other register, index, stack, sp, memory and video
\* are unchanged, and the handler itself leaves pc alone.
C14_LoadAndAddByte ==
  [][ (Dispatched /\ family_of(opcode') \in {6, 7})
        => /\ outcome' = "()"
           /\ registers' = ByteResult(opcode', registers)
           /\ pc' = pc
           /\ UNCHANGED << index, stack, sp, memory, video >> ]_vars

\* The effect of C14 as emulate_cycle of src/src/chip8.rs produces it (pc
\* advanced by exactly 2): holds under Spec.
C14_OnEmulateCycle ==
  [][ (Fetched /\ family_of(opcode') \in {6, 7})
        => /\ outcome' = "()"
           /\ registers' = ByteResult(opcode', registers)
           /\ pc' = pc + 2
           /\ UNCHANGED << index, stack, sp, memory, video >> ]_vars

\* C16: with a = registers[x] and b = registers[y] before the step, OR Vx,Vy
\* leaves registers[x] = a | b (a | b = a + b - (a & b)), AND Vx,Vy leaves
\* a & b and XOR Vx,Vy leaves a ^ b.
C16_BitwiseOps ==
  [][ (Fetched /\ family_of(opcode') = 8 /\ n_of(opcode') \in {1, 2, 3})
        => LET a == registers[x_of(opcode')]
               b == registers[y_of(opcode')]
           IN /\ outcome' = "()"
              /\ registers'[x_of(opcode')] =
                   CASE n_of(opcode') = 1 -> a + b - BitAnd(a, b)
                     [] n_of(opcode') = 2 -> BitAnd(a, b)
                     [] n_of(opcode') = 3 -> BitXor(a, b) ]_vars

\* C17: SUBN Vx,Vy with x # 0xF, a = registers[x] and b = registers[y] before
\* the step: the step completes (also when b < a), registers[0xF] is 1
\* exactly when b >= a, and registers[x] is (b - a) mod 256.
C17_SubnFlagLaw ==
  [][ (Fetched /\ family_of(opcode') = 8 /\ n_of(opcode') = 7 /\ x_of(opcode') # 15)
        => LET a == registers[x_of(opcode')]
               b == registers[y_of(opcode')]
           IN /\ outcome' = "()"
              /\ (registers'[15] = 1) <=> (b >= a)
              /\ registers'[x_of(opcode')] = (b - a) % 256 ]_vars

\* C18: no call of a handler that reads or writes the register file (the
\* families 3 to 9) ends in an index outside the 16 registers, whatever the
\* instruction word.
C18_RegisterIndicesInRange ==
  [][ (Dispatched /\ family_of(opcode') \in 3..9)
        => outcome' # "panic: " \o IndexOutOfBounds ]_vars

\* The register indices of C18 as emulate_cycle of src/src/chip8.rs decodes
\* them: no step on a word of the families 3 to 9 ends in an index outside
\* the register file.  Holds under Spec.
C18_OnEmulateCycle ==
  [][ (Fetched /\ family_of(opcode') \in 3..9)
        => /\ outcome' # "panic: " \o IndexOutOfBounds
           /\ x_of(opcode') \in 0..15
           /\ y_of(opcode') \in 0..15 ]_vars

\* Cell by cell, the frame has exactly the given cells on.
ShowsExactly(frame, cells) ==
  \A cell \in 0..(VIDEO_WIDTH * VIDEO_HEIGHT - 1) :
    (Read(frame, cell) # 0) <=> (cell \in cells)

\* C15: DRW Vx,Vy,n of a sprite with a set bit that fits into the frame at
\* (registers[x], registers[y]): drawn on the all-off frame the step leaves
\* exactly the sprite's set bits on and registers[0xF] = 0; drawn again on
\* that frame it leaves every cell off and registers[0xF] = 1.
C15_DrwCollision ==
  [][ (Fetched /\ family_of(opcode') = 13 /\ n_of(opcode') >= 1)
        => LET vx == registers[x_of(opcode')]
               vy == registers[y_of(opcode')]
               n == n_of(opcode')
               cells == SpriteCells(memory, index, n, vx, vy)
               fits == vx + 8 <= VIDEO_WIDTH /\ vy + n <= VIDEO_HEIGHT
           IN /\ (cells # {} /\ fits /\ ShowsExactly(video, {}))
                => /\ outcome' = "()"
                   /\ ShowsExactly(video', cells)
                   /\ registers'[15] = 0
              /\ (cells # {} /\ fits /\ ShowsExactly(video, cells))
                => /\ outcome' = "()"
                   /\ ShowsExactly(video', {})
                   /\ registers'[15] = 1 ]_vars

\* memory[0x050..=0x09F] holds the font table.
FontIntact ==
  \A i \in 0..(FONTSET_SIZE - 1) :
    Read(memory, FONTSET_START_ADDRESS + i) = CHIP8_FONTSET[i + 1]

LoadedFrame(mem, buf) ==
  LET kept == IF Len(buf) < MaxRomLen THEN Len(buf) ELSE MaxRomLen
  IN /\ DOMAIN mem \subseteq 0..(MEMORY_SIZE - 1)
     /\ \A i \in 0..(kept - 1) : Read(mem, START_ADDRESS + i) = buf[i + 1]
     /\ \A addr \in DOMAIN mem \cup DOMAIN new.memory :
          (addr < START_ADDRESS \/ addr >= START_ADDRESS + kept)
            => Read(mem, addr) = Read(new.memory, addr)

\* C20: load_rom on a fresh machine, for an image of any length L: memory
\* ends as LoadedFrame says, and pc, sp, stack, registers, index and video
\* are unchanged.
C20_LoadRomFrame ==
  [][ (outcome = "none" /\ outcome' # "Err(io)")
        => /\ LoadedFrame(memory', buffer')
           /\ UNCHANGED << pc, sp, stack, registers, index, video >> ]_vars

\* An image one byte longer than the load region has been loaded.
C20_Witness ==
  /\ outcome = "Ok(())"
  /\ Len(buffer) = MaxRomLen + 1
  /\ Read(memory, MEMORY_SIZE - 1) = buffer[MaxRomLen]

\* The frame of C20 for load_rom of src/src/modules/chip8.rs, which indexes
\* memory unchecked and panics at the first byte past the end: the memory it
\* leaves, returning or unwinding, is the same.  Holds under SpecModules.
C20_OnModulesLoadRom ==
  [][ (outcome = "none" /\ outcome' # "Err(io)" /\ script' = script)
        => /\ LoadedFrame(memory', buffer')
           /\ UNCHANGED << pc, sp, stack, registers, index, video >> ]_vars

====
